---- MODULE Spec2Model ----
(***************************************************************************)
(* Model of dev_events: the cached Mongoose connection (lib/mongodb.ts),   *)
(* the Event model (database/event.model.ts) and the Booking model, which   *)
(* lives beside it and imports "./event.model".                            *)
(*                                                                         *)
(* Strings are sequences of one-character strings, so that trimming, the   *)
(* regular expressions and the slug, date and time conversions are         *)
(* computed character by character as the code computes them.              *)
(***************************************************************************)
EXTENDS Integers, Sequences, FiniteSets, TLC

VARIABLES
    \* ---- lib/mongodb.ts
    cached,      \* the global cache {conn, promise}
    promises,    \* state of every promise mongoose.connect returned
    reactions,   \* per promise, the callers awaiting it, in registration order
    jobs,        \* the microtask queue (FIFO)
    pc,          \* per caller: "idle", "queued", "awaiting", "done"
    awaited,     \* per caller: the promise the caller awaits at line 59
    result,      \* per caller: what connectToDatabase returned or threw
    envUri,      \* process.env.MONGODB_URI is defined
    \* ---- database/event.model.ts and the Booking model
    events,      \* the events collection: _id -> document
    nextId,      \* the next ObjectId a new Event gets
    bookings,    \* the bookings collection: _id -> document
    nextBid,     \* the next ObjectId a new Booking gets
    bsave,       \* the Booking save in flight (suspended on I/O), or NoSave
    last,        \* the operation completed last and what its caller got
    \* ---- generateSlug on its own
    arg,         \* the title passed to generateSlug
    ret          \* the slug it returned

connVars  == <<cached, promises, reactions, jobs, pc, awaited, result, envUri>>
storeVars == <<events, nextId, bookings, nextBid, bsave, last>>
slugVars  == <<arg, ret>>
vars      == <<connVars, storeVars, slugVars>>

\* A Booking save slot with no save in flight.
NoSave == [phase |-> "idle"]

(***************************************************************************)
(* Characters and strings                                                  *)
(***************************************************************************)
IsSpace(c) == c = " "
IsDigit(c) == c \in {"0", "1", "2", "3", "4", "5", "6", "7", "8", "9"}
DigitVal(c) ==
    CASE c = "0" -> 0 [] c = "1" -> 1 [] c = "2" -> 2 [] c = "3" -> 3
      [] c = "4" -> 4 [] c = "5" -> 5 [] c = "6" -> 6 [] c = "7" -> 7
      [] c = "8" -> 8 [] c = "9" -> 9
DigitChar(n) ==
    CASE n = 0 -> "0" [] n = 1 -> "1" [] n = 2 -> "2" [] n = 3 -> "3"
      [] n = 4 -> "4" [] n = 5 -> "5" [] n = 6 -> "6" [] n = 7 -> "7"
      [] n = 8 -> "8" [] n = 9 -> "9"

\* String.prototype.toLowerCase, on the letters the model's titles use.
LowerChar(c) ==
    CASE c = "A" -> "a" [] c = "B" -> "b" [] OTHER -> c
toLowerCase(s) == [i \in 1..Len(s) |-> LowerChar(s[i])]

RECURSIVE trimStart(_)
trimStart(s) ==
    IF s # <<>> /\ IsSpace(Head(s)) THEN trimStart(Tail(s)) ELSE s
RECURSIVE trimEnd(_)
trimEnd(s) ==
    IF s # <<>> /\ IsSpace(s[Len(s)]) THEN trimEnd(SubSeq(s, 1, Len(s) - 1)) ELSE s
\* String.prototype.trim
trim(s) == trimEnd(trimStart(s))

(***************************************************************************)
(* generateSlug (event.model.ts, lines 30-38)                              *)
(***************************************************************************)
IsSlugAlnum(c) == c \in {"a", "b"} \/ IsDigit(c)

RECURSIVE dropNonAlnum(_)
dropNonAlnum(s) ==
    IF s # <<>> /\ ~IsSlugAlnum(Head(s)) THEN dropNonAlnum(Tail(s)) ELSE s

\* .replace(/[^a-z0-9]+/g, "-"): every maximal run of characters outside
\* a-z0-9 becomes one hyphen.
RECURSIVE replaceNonAlnumRuns(_)
replaceNonAlnumRuns(s) ==
    IF s = <<>> THEN <<>>
    ELSE IF IsSlugAlnum(Head(s)) THEN <<Head(s)>> \o replaceNonAlnumRuns(Tail(s))
    ELSE <<"-">> \o replaceNonAlnumRuns(dropNonAlnum(s))

RECURSIVE stripLeadingHyphens(_)
stripLeadingHyphens(s) ==
    IF s # <<>> /\ Head(s) = "-" THEN stripLeadingHyphens(Tail(s)) ELSE s
RECURSIVE stripTrailingHyphens(_)
stripTrailingHyphens(s) ==
    IF s # <<>> /\ s[Len(s)] = "-"
    THEN stripTrailingHyphens(SubSeq(s, 1, Len(s) - 1)) ELSE s
\* .replace(/^-+|-+$/g, "")
stripHyphens(s) == stripTrailingHyphens(stripLeadingHyphens(s))

\* A slug generator that forgets the final strip of hyphens.
generateSlugNoStrip(title) == replaceNonAlnumRuns(trim(toLowerCase(title)))

generateSlug(title) ==
    stripHyphens(replaceNonAlnumRuns(trim(toLowerCase(title))))

(***************************************************************************)
(* normalizeTime (event.model.ts, lines 57-70)                             *)
(***************************************************************************)
\* /^([01]\d|2[0-3]):([0-5]\d)(?::[0-5]\d)?$/
TimeRegexMatches(s) ==
    /\ Len(s) \in {5, 8}
    /\ \/ s[1] \in {"0", "1"} /\ IsDigit(s[2])
       \/ s[1] = "2" /\ s[2] \in {"0", "1", "2", "3"}
    /\ s[3] = ":"
    /\ s[4] \in {"0", "1", "2", "3", "4", "5"} /\ IsDigit(s[5])
    /\ Len(s) = 8 =>
         /\ s[6] = ":"
         /\ s[7] \in {"0", "1", "2", "3", "4", "5"} /\ IsDigit(s[8])

\* The result of a function that may throw: [ok |-> TRUE, value |-> v], or
\* [ok |-> FALSE] for the thrown Error.
Returns(v) == [ok |-> TRUE, value |-> v]
Throws == [ok |-> FALSE]

normalizeTime(time) ==
    LET trimmed == trim(time)
    IN  IF ~TimeRegexMatches(trimmed) THEN Throws
        ELSE Returns(SubSeq(trimmed, 1, 2) \o <<":">> \o SubSeq(trimmed, 4, 5))

(***************************************************************************)
(* normalizeDate (event.model.ts, lines 43-52)                             *)
(*                                                                         *)
(* new Date(string) is modelled on the ECMAScript date-time string format: *)
(* YYYY-MM-DD, the expanded year form +YYYYYY-MM-DD / -YYYYYY-MM-DD, and   *)
(* YYYY-MM-DDTHH:mm:ssZ. Strings in other shapes go to the engine's own    *)
(* fallback parser; the model's inputs hold only ones every engine         *)
(* rejects, so they are NaN here.                                          *)
(***************************************************************************)
NaN == [nan |-> TRUE]

AllDigits(s) == \A i \in 1..Len(s) : IsDigit(s[i])

RECURSIVE ToNumber(_)
ToNumber(s) ==
    IF s = <<>> THEN 0
    ELSE 10 * ToNumber(SubSeq(s, 1, Len(s) - 1)) + DigitVal(s[Len(s)])

IsLeapYear(y) == (y % 4 = 0 /\ y % 100 # 0) \/ y % 400 = 0
DaysInMonth(y, m) ==
    IF m = 2 THEN (IF IsLeapYear(y) THEN 29 ELSE 28)
    ELSE IF m \in {4, 6, 9, 11} THEN 30 ELSE 31

\* The instant of a calendar date, kept as its UTC (year, month, day), or NaN
\* when a field is out of range or the instant is outside the Date range.
MakeDate(y, m, d) ==
    IF /\ m \in 1..12
       /\ d \in 1..DaysInMonth(y, m)
       /\ y > -271821 /\ y < 275760
    THEN [nan |-> FALSE, year |-> y, month |-> m, day |-> d]
    ELSE NaN

\* "-MM-DD" after the year digits
MonthDayShape(s) ==
    /\ Len(s) = 6
    /\ s[1] = "-" /\ IsDigit(s[2]) /\ IsDigit(s[3])
    /\ s[4] = "-" /\ IsDigit(s[5]) /\ IsDigit(s[6])

\* "THH:mm:ssZ"
UtcTimeShape(s) ==
    /\ Len(s) = 10
    /\ s[1] = "T" /\ s[10] = "Z"
    /\ TimeRegexMatches(SubSeq(s, 2, 9))

ParseIsoDate(s) ==
    IF Len(s) >= 10 /\ AllDigits(SubSeq(s, 1, 4)) /\ MonthDayShape(SubSeq(s, 5, 10))
       /\ (Len(s) = 10 \/ UtcTimeShape(SubSeq(s, 11, Len(s))))
    THEN MakeDate(ToNumber(SubSeq(s, 1, 4)), ToNumber(SubSeq(s, 6, 7)),
                  ToNumber(SubSeq(s, 9, 10)))
    ELSE IF Len(s) = 13 /\ s[1] \in {"+", "-"} /\ AllDigits(SubSeq(s, 2, 7))
            /\ MonthDayShape(SubSeq(s, 8, 13))
            /\ ~(s[1] = "-" /\ ToNumber(SubSeq(s, 2, 7)) = 0)
    THEN MakeDate((IF s[1] = "-" THEN -1 ELSE 1) * ToNumber(SubSeq(s, 2, 7)),
                  ToNumber(SubSeq(s, 9, 10)), ToNumber(SubSeq(s, 12, 13)))
    ELSE NaN

\* new Date(date)
NewDate(s) == ParseIsoDate(s)

RECURSIVE PadDigits(_, _)
PadDigits(n, width) ==
    IF width = 0 THEN <<>>
    ELSE PadDigits(n \div 10, width - 1) \o <<DigitChar(n % 10)>>

\* Date.prototype.toISOString().split("T")[0]: a year outside 0..9999 is
\* written in the expanded form, a sign and six digits.
ISODatePart(t) ==
    LET yearText ==
          IF t.year >= 0 /\ t.year <= 9999 THEN PadDigits(t.year, 4)
          ELSE IF t.year < 0 THEN <<"-">> \o PadDigits(-t.year, 6)
          ELSE <<"+">> \o PadDigits(t.year, 6)
    IN  yearText \o <<"-">> \o PadDigits(t.month, 2) \o <<"-">> \o PadDigits(t.day, 2)

normalizeDate(date) ==
    LET parsed == NewDate(date)
    IN  IF parsed.nan THEN Throws ELSE Returns(ISODatePart(parsed))

(***************************************************************************)
(* The Event schema (event.model.ts, lines 72-163)                         *)
(***************************************************************************)
MaxEvents == 2

\* The paths declared { type: String, required: true, trim: true }.
StringPaths ==
    {"title", "slug", "description", "overview", "image", "venue", "location",
     "date", "time", "mode", "audience", "organizer"}
\* The paths declared { type: [String], required: true, validate: ... }.
ArrayPaths == {"agenda", "tags"}

\* The trim setter of a String path; an array path has no setter.
ApplySetter(path, value) == IF path \in StringPaths THEN trim(value) ELSE value

\* new Event(assign): the assigned paths, through their setters; an array path
\* that was not assigned defaults to the empty array.
NewEventDoc(assign) ==
    [path \in DOMAIN assign \cup ArrayPaths |->
        IF path \in DOMAIN assign THEN ApplySetter(path, assign[path]) ELSE <<>>]

\* A persisted Event loaded from the store, then assigned.
EditedEventDoc(stored, assign) ==
    [path \in DOMAIN stored |->
        IF path \in DOMAIN assign THEN ApplySetter(path, assign[path]) ELSE stored[path]]

\* required: true on a String path: the value is a string and not empty.
RequiredString(doc, path) == path \in DOMAIN doc /\ doc[path] # <<>>

\* The validator of agenda and of tags (lines 134-136, 149-151).
NonEmptyStringList(value) ==
    /\ Len(value) > 0
    /\ \A i \in 1..Len(value) : Len(trim(value[i])) > 0

\* Mongoose validates the document against the schema in its own pre-save
\* step, which runs before every hook registered with schema.pre("save").
SchemaValid(doc) ==
    /\ \A path \in StringPaths : RequiredString(doc, path)
    /\ \A path \in ArrayPaths : NonEmptyStringList(doc[path])

(***************************************************************************)
(* EventSchema.pre("save") (event.model.ts, lines 166-214)                 *)
(***************************************************************************)
requiredStringFields ==
    {"title", "description", "overview", "image", "venue", "location", "mode",
     "audience", "organizer"}

\* A hook that regenerates the slug on every save.
SlugRegeneratedAlways(titleModified) == TRUE

\* event.isModified("title") decides whether the slug is regenerated.
SlugRegenerated(titleModified) == titleModified

\* The hook: Throws for next(error), else the document it leaves to be written.
EventPreSave(doc, titleModified) ==
    IF \E field \in requiredStringFields :
          field \notin DOMAIN doc \/ Len(trim(doc[field])) = 0
    THEN Throws
    ELSE LET date == normalizeDate(doc.date)
             time == normalizeTime(doc.time)
         IN  IF ~date.ok \/ ~time.ok THEN Throws
             ELSE LET normalized ==
                        [doc EXCEPT !.date = ApplySetter("date", date.value),
                                    !.time = ApplySetter("time", time.value)]
                  IN  Returns(
                        IF SlugRegenerated(titleModified)
                        THEN [normalized EXCEPT
                                !.slug = ApplySetter("slug", generateSlug(doc.title))]
                        ELSE normalized)

\* An events collection without the unique index on slug.
SlugIndexMissing(store, id, doc) == FALSE

\* The unique index on slug (lines 82 and 163): the write of doc under id is
\* refused when another document of the collection holds the same slug.
SlugIndexRefuses(store, id, doc) ==
    \E other \in DOMAIN store : other # id /\ store[other].slug = doc.slug

\* document.save(): what the caller gets and the collection afterwards.
\* id is the document's _id, isNew whether it was never persisted.
EventSaveResult(store, id, isNew, assign) ==
    LET doc == IF isNew THEN NewEventDoc(assign) ELSE EditedEventDoc(store[id], assign)
        titleModified ==
            /\ "title" \in DOMAIN doc
            /\ isNew \/ doc.title # store[id].title
    IN  IF ~SchemaValid(doc)
        THEN [outcome |-> "ValidationError", store |-> store, titleModified |-> titleModified]
        ELSE LET hook == EventPreSave(doc, titleModified)
             IN  IF ~hook.ok
                 THEN [outcome |-> "ValidationError", store |-> store,
                       titleModified |-> titleModified]
                 ELSE IF SlugIndexRefuses(store, id, hook.value)
                 THEN [outcome |-> "UniquenessError", store |-> store,
                       titleModified |-> titleModified]
                 ELSE [outcome |-> "ok",
                       store |-> [i \in DOMAIN store \cup {id} |->
                                    IF i = id THEN hook.value ELSE store[i]],
                       titleModified |-> titleModified]

(***************************************************************************)
(* The values callers pass                                                 *)
(***************************************************************************)
X == <<"x">>
Blank == <<" ">>

TitleInputs == {<<" ", "A", " ", "b", " ">>, <<"a", "-", "b">>, <<"!">>, Blank}
SlugInputs == {<<"s">>, Blank}
DateInputs ==
    {<<"2", "0", "2", "5", "-", "1", "1", "-", "1", "6">>,
     <<"2", "0", "2", "5", "-", "1", "1", "-", "1", "6", "T", "2", "3", ":", "3", "0", ":", "0", "0", "Z">>,
     <<"+", "0", "1", "0", "0", "0", "0", "-", "0", "1", "-", "0", "1">>,
     <<"s", "o", "o", "n">>}
TimeInputs ==
    {<<"0", "9", ":", "0", "5">>, <<" ", "0", "9", ":", "0", "5", ":", "3", "0", " ">>,
     <<"9", ":", "0", "5", ":", "3", "0">>, <<"2", "4", ":", "0", "0">>}
ListInputs == {<<>>, <<X, Blank>>}

\* Every path but slug, each with a value that passes every rule.
ValidFields ==
    [title |-> <<"A", " ", "b">>, description |-> X, overview |-> X, image |-> X,
     venue |-> X, location |-> X, date |-> <<"2", "0", "2", "5", "-", "1", "1", "-", "1", "6">>,
     time |-> <<"0", "9", ":", "0", "5">>, mode |-> X, audience |-> X, agenda |-> <<X>>,
     organizer |-> X, tags |-> <<X>>]

Assign(path, value) == path :> value
Omit(fields, path) == [p \in DOMAIN fields \ {path} |-> fields[p]]

\* What a caller constructs a new Event from: the valid fields with or without
\* a slug of the caller's, and with one or two paths changed or left out.
NewEventInputs ==
    {ValidFields}
    \cup {Assign("title", t) @@ Assign("slug", s) @@ ValidFields :
            t \in TitleInputs, s \in SlugInputs}
    \cup {Assign("date", d) @@ Assign("slug", <<"s">>) @@ ValidFields : d \in DateInputs}
    \cup {Assign("time", t) @@ Assign("slug", <<"s">>) @@ ValidFields : t \in TimeInputs}
    \cup {Assign(p, l) @@ Assign("slug", <<"s">>) @@ ValidFields :
            p \in ArrayPaths, l \in ListInputs}
    \cup {Assign("venue", Blank) @@ Assign("slug", <<"s">>) @@ ValidFields,
          Assign("slug", <<"s">>) @@ Omit(ValidFields, "organizer"),
          Assign("slug", <<"s">>) @@ Omit(ValidFields, "agenda")}

\* What a caller assigns to a loaded Event before saving it again.
EventEditInputs ==
    {<<>>}
    \cup {Assign("title", t) : t \in TitleInputs}
    \cup {Assign("slug", s) : s \in SlugInputs}
    \cup {Assign("date", d) : d \in DateInputs}
    \cup {Assign("time", t) : t \in TimeInputs}
    \cup {Assign("agenda", l) : l \in ListInputs}
    \cup {Assign("venue", Blank)}


(***************************************************************************)
(* Saving Events                                                           *)
(***************************************************************************)
NoOperation == [op |-> "none"]

InitStore ==
    /\ events = <<>>
    /\ nextId = 1
    /\ bookings = <<>>
    /\ nextBid = 1
    /\ bsave = NoSave
    /\ last = NoOperation

EventSaved(id, isNew, assign) ==
    LET saved == EventSaveResult(events, id, isNew, assign)
    IN  /\ events' = saved.store
        /\ nextId' = IF isNew /\ saved.outcome = "ok" THEN nextId + 1 ELSE nextId
        /\ last' = [op |-> "eventSave", id |-> id, isNew |-> isNew, assign |-> assign,
                    outcome |-> saved.outcome, titleModified |-> saved.titleModified,
                    prevSlug |-> IF isNew THEN <<>> ELSE events[id].slug]

\* new Event(assign).save()
CreateEvent ==
    /\ nextId <= MaxEvents
    /\ \E assign \in NewEventInputs : EventSaved(nextId, TRUE, assign)
    /\ UNCHANGED <<bookings, nextBid, bsave, connVars, slugVars>>

\* event = await Event.findById(id); event.set(assign); event.save()
EditEvent ==
    /\ \E id \in DOMAIN events, assign \in EventEditInputs : EventSaved(id, FALSE, assign)
    /\ UNCHANGED <<bookings, nextBid, bsave, connVars, slugVars>>

(***************************************************************************)
(* The Booking schema and BookingSchema.pre("save")                        *)
(* (Booking model, lines 19-72)                                            *)
(***************************************************************************)
MaxBookings == 1

NotSpaceNorAt(c) == ~IsSpace(c) /\ c # "@"
AllNotSpaceNorAt(s, from, to) == \A k \in from..to : NotSpaceNorAt(s[k])

\* /^[^\s@]+@[^\s@]+\.[^\s@]+$/
EMAIL_REGEX(s) ==
    \E i, j \in 1..Len(s) :
        /\ 1 < i /\ i + 1 < j /\ j < Len(s)
        /\ s[i] = "@" /\ s[j] = "."
        /\ AllNotSpaceNorAt(s, 1, i - 1)
        /\ AllNotSpaceNorAt(s, i + 1, j - 1)
        /\ AllNotSpaceNorAt(s, j + 1, Len(s))

EmailInputs ==
    {<<"a", "@", "b", ".", "c">>, <<" ", "b", "@", "a", ".", "c", " ">>,
     <<"a", "@", " ", "b", ".", "c">>, <<"a", ".", "b", "@", "c">>}

\* The ObjectIds a Booking may name: those of the Events, and 0, an ObjectId
\* that no Event ever had.
EventRefs == 0..MaxEvents

NewBookingInputs == {[eventId |-> e, email |-> m] : e \in EventRefs, m \in EmailInputs}
BookingEditInputs ==
    {<<>>}
    \cup {Assign("email", m) : m \in EmailInputs}
    \cup {Assign("eventId", e) : e \in EventRefs}

\* email is { type: String, trim: true }; eventId is an ObjectId.
BookingDoc(stored, assign) ==
    [path \in {"eventId", "email"} |->
        LET value == IF path \in DOMAIN assign THEN assign[path] ELSE stored[path]
        IN  IF path = "email" THEN trim(value) ELSE value]

\* The schema's own validation: email is required and passes its validator.
BookingSchemaValid(doc) == doc.email # <<>> /\ EMAIL_REGEX(doc.email)

\* A hook that looks the Event up only for a new Booking.
LookupOnlyWhenNew(isNew, refModified) == isNew

\* booking.isNew || booking.isModified("eventId") (line 60)
LookupNeeded(isNew, refModified) == isNew \/ refModified

\* A lookup that finds every Event.
EventAlwaysExists(store, id) == TRUE

\* Event.exists({ _id: booking.eventId }) (line 61)
EventExists(store, id) == id \in DOMAIN store

BookingOutcome(save, outcome) ==
    [op |-> "bookingSave", id |-> save.id, isNew |-> save.isNew, doc |-> save.doc,
     refModified |-> save.refModified, looked |-> save.looked,
     existed |-> save.existed, outcome |-> outcome]

\* booking.save() up to the first suspension: the schema validation, then the
\* hook's email test; then either the hook awaits the lookup or calls next().
StartBookingSave(id, isNew, assign) ==
    LET doc == BookingDoc(IF isNew THEN assign ELSE bookings[id], assign)
        refModified == ~isNew /\ doc.eventId # bookings[id].eventId
        save == [phase |-> "lookup", id |-> id, isNew |-> isNew, doc |-> doc,
                 refModified |-> refModified, looked |-> FALSE, existed |-> FALSE]
    IN  /\ bsave = NoSave
        /\ IF ~BookingSchemaValid(doc) \/ ~EMAIL_REGEX(doc.email)
           THEN /\ last' = BookingOutcome(save, "ValidationError")
                /\ bsave' = bsave
           ELSE IF LookupNeeded(isNew, refModified)
           THEN /\ bsave' = save
                /\ last' = last
           ELSE /\ bsave' = [save EXCEPT !.phase = "write"]
                /\ last' = last
        /\ UNCHANGED <<events, nextId, bookings, nextBid, connVars, slugVars>>

CreateBooking ==
    /\ nextBid <= MaxBookings
    /\ \E assign \in NewBookingInputs : StartBookingSave(nextBid, TRUE, assign)

EditBooking ==
    \E id \in DOMAIN bookings, assign \in BookingEditInputs :
        StartBookingSave(id, FALSE, assign)

\* The store answers the lookup of line 61; the hook throws or calls next().
\* existed records whether the events collection held the referenced Event at
\* that moment.
BookingLookup ==
    /\ bsave.phase = "lookup"
    /\ LET save == [bsave EXCEPT !.looked = TRUE,
                                 !.existed = bsave.doc.eventId \in DOMAIN events]
       IN  IF EventExists(events, bsave.doc.eventId)
           THEN /\ bsave' = [save EXCEPT !.phase = "write"]
                /\ last' = last
           ELSE /\ bsave' = NoSave
                /\ last' = BookingOutcome(save, "ReferenceError")
    /\ UNCHANGED <<events, nextId, bookings, nextBid, connVars, slugVars>>

\* After next(): the document is written to the bookings collection.
BookingWrite ==
    /\ bsave.phase = "write"
    /\ bookings' = [i \in DOMAIN bookings \cup {bsave.id} |->
                      IF i = bsave.id THEN bsave.doc ELSE bookings[i]]
    /\ nextBid' = IF bsave.isNew THEN nextBid + 1 ELSE nextBid
    /\ bsave' = NoSave
    /\ last' = BookingOutcome(bsave, "ok")
    /\ UNCHANGED <<events, nextId, connVars, slugVars>>

\* The Events the Booking model is exercised against.
ListedEventInputs ==
    {Assign("title", t) @@ Assign("slug", <<"s">>) @@ ValidFields :
        t \in {<<"A", " ", "b">>, <<"B">>}}

ListEvent ==
    /\ nextId <= MaxEvents
    /\ \E assign \in ListedEventInputs : EventSaved(nextId, TRUE, assign)
    /\ UNCHANGED <<bookings, nextBid, bsave, connVars, slugVars>>

\* Event.deleteOne({ _id: id }): neither schema registers a hook on deletion,
\* so only the Event document goes.
DeleteEvent ==
    /\ \E id \in DOMAIN events :
          /\ events' = [i \in DOMAIN events \ {id} |-> events[i]]
          /\ last' = [op |-> "deleteEvent", id |-> id]
    /\ UNCHANGED <<nextId, bookings, nextBid, bsave, connVars, slugVars>>

(***************************************************************************)
(* connectToDatabase (lib/mongodb.ts, lines 20-67)                         *)
(*                                                                         *)
(* A promise is named by the number of the mongoose.connect call that made *)
(* it, and so is the handle it resolves to; 0 is null. JavaScript runs a   *)
(* job to completion, and promise reactions run as microtasks in the order *)
(* they were queued: jobs is that queue. A call of connectToDatabase is    *)
(* itself made from a job (a request handler's continuation).              *)
(***************************************************************************)
NumCallers == 3
Callers == 1..NumCallers

NoResult == [kind |-> "none"]
Handle(p) == [kind |-> "handle", of |-> p]
Thrown(type) == [kind |-> "error", type |-> type]

InitConnection ==
    /\ cached = [conn |-> 0, promise |-> 0]
    /\ promises = <<>>
    /\ reactions = <<>>
    /\ jobs = <<>>
    /\ pc = [c \in Callers |-> "idle"]
    /\ awaited = [c \in Callers |-> 0]
    /\ result = [c \in Callers |-> NoResult]

\* A cache that never sees the promise in flight.
PromiseNeverInFlight == FALSE

\* !cached.promise is false (line 51)
PromiseInFlight == cached.promise # 0

\* A caller's code that will call connectToDatabase is queued.
Schedule(c) ==
    /\ pc[c] = "idle"
    /\ pc' = [pc EXCEPT ![c] = "queued"]
    /\ jobs' = Append(jobs, [kind |-> "call", caller |-> c])
    /\ UNCHANGED <<cached, promises, reactions, awaited, result, envUri,
                   storeVars, slugVars>>

\* connectToDatabase() from its first line to its return, its throw, or the
\* await of line 59.
Call ==
    /\ jobs # <<>> /\ Head(jobs).kind = "call"
    /\ LET c == Head(jobs).caller
       IN  IF ~envUri
           THEN /\ result' = [result EXCEPT ![c] = Thrown("ConfigurationError")]
                /\ pc' = [pc EXCEPT ![c] = "done"]
                /\ jobs' = Tail(jobs)
                /\ UNCHANGED <<cached, promises, reactions, awaited>>
           ELSE IF cached.conn # 0
           THEN /\ result' = [result EXCEPT ![c] = Handle(cached.conn)]
                /\ pc' = [pc EXCEPT ![c] = "done"]
                /\ jobs' = Tail(jobs)
                /\ UNCHANGED <<cached, promises, reactions, awaited>>
           ELSE LET connects == ~PromiseInFlight
                    p == IF connects THEN Len(promises) + 1 ELSE cached.promise
                    started == IF connects THEN Append(promises, "pending") ELSE promises
                    waiting == IF connects THEN Append(reactions, <<>>) ELSE reactions
                IN  /\ promises' = started
                    /\ cached' = [cached EXCEPT !.promise = p]
                    /\ awaited' = [awaited EXCEPT ![c] = p]
                    /\ pc' = [pc EXCEPT ![c] = "awaiting"]
                    /\ IF started[p] = "pending"
                       THEN /\ reactions' = [waiting EXCEPT ![p] = Append(@, c)]
                            /\ jobs' = Tail(jobs)
                       ELSE /\ reactions' = waiting
                            /\ jobs' = Append(Tail(jobs), [kind |-> "resume", caller |-> c])
                    /\ result' = result
    /\ UNCHANGED <<envUri, storeVars, slugVars>>

\* The driver settles a connection attempt: every caller awaiting the promise
\* is queued to resume, in the order the callers began to wait.
Settle(p, state) ==
    /\ promises[p] = "pending"
    /\ promises' = [promises EXCEPT ![p] = state]
    /\ jobs' = jobs \o [k \in 1..Len(reactions[p]) |->
                          [kind |-> "resume", caller |-> reactions[p][k]]]
    /\ reactions' = [reactions EXCEPT ![p] = <<>>]
    /\ UNCHANGED <<cached, pc, awaited, result, envUri, storeVars, slugVars>>

ConnectSucceeds == \E p \in DOMAIN promises : Settle(p, "fulfilled")
ConnectFails == \E p \in DOMAIN promises : Settle(p, "rejected")

\* connectToDatabase() from the await of line 59 to its return or throw.
Resume ==
    /\ jobs # <<>> /\ Head(jobs).kind = "resume"
    /\ LET c == Head(jobs).caller
           p == awaited[c]
       IN  /\ IF promises[p] = "fulfilled"
              THEN /\ cached' = [cached EXCEPT !.conn = p]
                   /\ result' = [result EXCEPT ![c] = Handle(p)]
              ELSE /\ cached' = [cached EXCEPT !.promise = 0]
                   /\ result' = [result EXCEPT ![c] = Thrown("ConnectionError")]
           /\ pc' = [pc EXCEPT ![c] = "done"]
           /\ jobs' = Tail(jobs)
    /\ UNCHANGED <<promises, reactions, awaited, envUri, storeVars, slugVars>>

(***************************************************************************)
(* generateSlug applied to every title of a bounded alphabet               *)
(***************************************************************************)
MaxTitleLen == 4
TitleAlphabet == {"a", "B", "7", " ", "-", "!"}
BoundedTitles == UNION {[1..n -> TitleAlphabet] : n \in 0..MaxTitleLen}

NotCalled == [called |-> FALSE]

InitSlug ==
    /\ arg = <<>>
    /\ ret = NotCalled

Slugify ==
    /\ ~ret.called
    /\ ret' = [called |-> TRUE, value |-> generateSlug(arg)]
    /\ UNCHANGED <<arg, connVars, storeVars>>

(***************************************************************************)
(* Specifications                                                          *)
(***************************************************************************)
ConnectionIdle == InitConnection /\ envUri = TRUE

\* The connection cache under any number of callers up to NumCallers.
InitConnectionSpec == InitConnection /\ envUri \in BOOLEAN /\ InitStore /\ InitSlug
NextConnection ==
    \/ \E c \in Callers : Schedule(c)
    \/ Call
    \/ ConnectSucceeds
    \/ ConnectFails
    \/ Resume
SpecConnection == InitConnectionSpec /\ [][NextConnection]_vars

\* Creating and editing Events.
InitEventSpec == ConnectionIdle /\ InitStore /\ InitSlug
NextEvent == CreateEvent \/ EditEvent
SpecEvent == InitEventSpec /\ [][NextEvent]_vars

\* Saving Bookings while Events are created and deleted.
InitBookingSpec == ConnectionIdle /\ InitStore /\ InitSlug
NextBooking ==
    \/ ListEvent
    \/ DeleteEvent
    \/ CreateBooking
    \/ EditBooking
    \/ BookingLookup
    \/ BookingWrite
SpecBooking == InitBookingSpec /\ [][NextBooking]_vars

\* generateSlug on its own.
InitSlugSpec ==
    /\ ConnectionIdle /\ InitStore
    /\ arg \in BoundedTitles
    /\ ret = NotCalled
SpecSlug == InitSlugSpec /\ [][Slugify]_vars

(***************************************************************************)
(* Properties                                                              *)
(***************************************************************************)
Settled(state) == {p \in DOMAIN promises : promises[p] = state}
Done == {c \in Callers : pc[c] = "done"}

\* C1: with the URI configured and no connection attempt failing, at most one
\* mongoose.connect is ever started and every call that returned, returned the
\* handle of that one attempt.
C1_SingleConnectionAttempt ==
    (envUri /\ Settled("rejected") = {}) =>
        /\ Len(promises) <= 1
        /\ \A c \in Done : result[c] = Handle(1)

\* Two callers awaited the one attempt and a later caller got the cached handle.
C1_Witness ==
    /\ envUri /\ Settled("rejected") = {}
    /\ Done = Callers
    /\ Cardinality({c \in Callers : awaited[c] = 1}) >= 2
    /\ \E c \in Callers : awaited[c] = 0 /\ result[c] = Handle(1)

\* C2: a caller that awaited a failed attempt gets the error, a failed attempt
\* caches no handle, and a connection attempt in progress is the in-flight
\* marker: no waiter of an earlier, failed attempt discards it, so the next
\* call starts no second attempt beside it.
C2_FailureLeavesFreshAttemptInFlight ==
    /\ \A c \in Done :
          (awaited[c] # 0 /\ promises[awaited[c]] = "rejected")
              => result[c] = Thrown("ConnectionError")
    /\ cached.conn # 0 => promises[cached.conn] = "fulfilled"
    /\ \A p \in Settled("pending") : cached.promise = p

SlugsUnique ==
    \A i, j \in DOMAIN events : i # j => events[i].slug # events[j].slug

EventSaveIs(outcome) == last.op = "eventSave" /\ last.outcome = outcome

\* The slug the save recorded in saved would have written.
AttemptedSlug(saved) ==
    IF saved.titleModified THEN generateSlug(trim(saved.assign.title))
    ELSE IF "slug" \in DOMAIN saved.assign THEN trim(saved.assign.slug)
    ELSE saved.prevSlug

RefusedAsDuplicate(saved) ==
    saved.op = "eventSave" /\ saved.outcome = "UniquenessError"

\* C3: no two persisted Events ever have the same slug; a save refused with
\* UniquenessError is one whose slug another persisted Event holds, and it
\* leaves the collection as it was.
C3_SlugUnique ==
    [][/\ SlugsUnique'
       /\ RefusedAsDuplicate(last') =>
            /\ events' = events
            /\ \E other \in DOMAIN events :
                  other # last'.id /\ events[other].slug = AttemptedSlug(last')]_vars

C3_Witness ==
    /\ EventSaveIs("UniquenessError")
    /\ ~last.isNew

\* C4 as stated: after a successful save with the title new or modified the
\* persisted slug is generateSlug(title); after one with the title not modified
\* the slug is exactly what was persisted before.
C4_SlugOnlyFromTitle ==
    EventSaveIs("ok") =>
        /\ last.titleModified =>
              events[last.id].slug = generateSlug(events[last.id].title)
        /\ ~last.titleModified => events[last.id].slug = last.prevSlug

\* C4 amended: after a successful save with the title new or modified the
\* persisted slug is generateSlug(title); after one with the title not modified
\* the slug is what the caller assigned to the slug path (trimmed) if the caller
\* assigned it, and otherwise exactly what was persisted before.
C4_SlugFromTitleOrCaller ==
    EventSaveIs("ok") =>
        /\ last.titleModified =>
              events[last.id].slug = generateSlug(events[last.id].title)
        /\ ~last.titleModified =>
              events[last.id].slug =
                  IF "slug" \in DOMAIN last.assign THEN trim(last.assign.slug)
                  ELSE last.prevSlug

\* A save that changed neither title nor slug kept a slug of the caller's.
C4_Witness ==
    /\ EventSaveIs("ok")
    /\ ~last.isNew /\ ~last.titleModified
    /\ "slug" \notin DOMAIN last.assign
    /\ events[last.id].slug = last.prevSlug
    /\ events[last.id].slug # generateSlug(events[last.id].title)

\* The local@domain.tld shape: no space, exactly one @, which is not first, and
\* after it a dot that is neither next to the @ nor last.
LocalAtDomainTld(s) ==
    /\ \A k \in 1..Len(s) : s[k] # " "
    /\ Cardinality({k \in 1..Len(s) : s[k] = "@"}) = 1
    /\ LET at == CHOOSE k \in 1..Len(s) : s[k] = "@"
       IN  at > 1 /\ \E dot \in (at + 2)..(Len(s) - 1) : s[dot] = "."

BookingSaveIs(outcome) == last.op = "bookingSave" /\ last.outcome = outcome

BookingOutcomeAsSpecified ==
    last.op = "bookingSave" =>
        IF ~LocalAtDomainTld(last.doc.email)
        THEN last.outcome = "ValidationError" /\ ~last.looked
        ELSE IF (last.isNew \/ last.refModified) /\ ~last.existed
        THEN last.outcome = "ReferenceError"
        ELSE last.outcome = "ok"

\* C5: a Booking save fails with ValidationError, before any Event lookup, if
\* the email is not of the local@domain.tld shape; otherwise with ReferenceError
\* if the Booking is new or its Event reference changed and no Event with that
\* id exists at the lookup; otherwise it succeeds. A failed save leaves the
\* bookings collection as it was.
C5_BookingSaveOutcomes ==
    [][/\ BookingOutcomeAsSpecified'
       /\ (last'.op = "bookingSave" /\ last'.outcome # "ok") => bookings' = bookings]_vars

\* An existing Booking was pointed at an Event that does not exist.
C5_Witness ==
    /\ BookingSaveIs("ReferenceError")
    /\ ~last.isNew /\ last.refModified
    /\ LocalAtDomainTld(last.doc.email)

\* C9: the lookup runs exactly when the Booking is new or its Event reference
\* was modified, and a save that needed it succeeds only if the Event existed
\* when the lookup was made; a save of an existing Booking that leaves the
\* reference alone succeeds without a lookup; deleting an Event leaves the
\* bookings collection as it was.
C9_ReferenceCheckedOnlyWhenSet ==
    [][/\ (BookingSaveIs("ok") /\ (last.isNew \/ last.refModified))' =>
              (last.looked /\ last.existed)'
       /\ (last.op = "bookingSave" /\ ~last.isNew /\ ~last.refModified
             /\ LocalAtDomainTld(last.doc.email))' =>
              (last.outcome = "ok" /\ ~last.looked)'
       /\ last'.op = "deleteEvent" => bookings' = bookings]_vars

\* An existing Booking was saved with a new email after its Event was deleted.
C9_Witness ==
    /\ BookingSaveIs("ok")
    /\ ~last.isNew /\ ~last.refModified /\ ~last.looked
    /\ last.doc.eventId # 0
    /\ last.doc.eventId \notin DOMAIN events
    /\ bookings[last.id] = last.doc

\* The rules C6 names, on what the caller assigned to a new Event.
GivenNonBlank(assign, path) == path \in DOMAIN assign /\ trim(assign[path]) # <<>>
GivenStringList(assign, path) ==
    /\ path \in DOMAIN assign
    /\ assign[path] # <<>>
    /\ \A i \in 1..Len(assign[path]) : trim(assign[path][i]) # <<>>
NewEventRulesHold(assign, others) ==
    /\ \A path \in requiredStringFields : GivenNonBlank(assign, path)
    /\ GivenStringList(assign, "agenda") /\ GivenStringList(assign, "tags")
    /\ "date" \in DOMAIN assign /\ ~NewDate(trim(assign.date)).nan
    /\ "time" \in DOMAIN assign /\ TimeRegexMatches(trim(assign.time))
    /\ \A other \in others : events[other].slug # generateSlug(assign.title)

\* C6: saving a new Event succeeds if and only if every rule holds (the nine
\* strings non-blank, agenda and tags non-empty lists of non-blank strings, the
\* date parseable, the time in the grammar, the generated slug not taken),
\* whether or not the caller supplied a slug.
C6_NewEventSavedIffRulesHold ==
    (last.op = "eventSave" /\ last.isNew) =>
        (last.outcome = "ok"
            <=> NewEventRulesHold(last.assign, DOMAIN events \ {last.id}))

CanonicalDate(s) ==
    /\ Len(s) = 10
    /\ \A k \in {1, 2, 3, 4, 6, 7, 9, 10} : IsDigit(s[k])
    /\ s[5] = "-" /\ s[8] = "-"
CanonicalTime(s) ==
    /\ Len(s) = 5
    /\ \A k \in {1, 2, 4, 5} : IsDigit(s[k])
    /\ s[3] = ":"
    /\ 10 * DigitVal(s[1]) + DigitVal(s[2]) <= 23
    /\ 10 * DigitVal(s[4]) + DigitVal(s[5]) <= 59

TimesCanonical == \A id \in DOMAIN events : CanonicalTime(events[id].time)
DatesCanonical == \A id \in DOMAIN events : CanonicalDate(events[id].date)

\* A save given a date that does not parse or a time outside the grammar fails.
BadDateOrTimeRefused ==
    (/\ last.op = "eventSave"
     /\ \/ "date" \in DOMAIN last.assign /\ NewDate(trim(last.assign.date)).nan
        \/ "time" \in DOMAIN last.assign /\ ~TimeRegexMatches(trim(last.assign.time)))
        => last.outcome = "ValidationError"

\* C7: every persisted Event has its date as YYYY-MM-DD and its time as HH:MM
\* with hours 00-23 and minutes 00-59, and a save given an unparseable date or a
\* time outside the grammar fails with ValidationError.
C7_DateAndTimeCanonical ==
    /\ TimesCanonical
    /\ DatesCanonical
    /\ BadDateOrTimeRefused

\* The part of C7 about the time alone, and about refused saves.
TimeCanonicalAndBadInputRefused ==
    /\ TimesCanonical
    /\ BadDateOrTimeRefused

\* C10: every persisted Event has a slug that is non-empty after trimming.
C10_SlugNonEmpty ==
    \A id \in DOMAIN events : trim(events[id].slug) # <<>>

SlugChars == {"a", "b", "0", "1", "2", "3", "4", "5", "6", "7", "8", "9", "-"}

\* C8: for every title over the alphabet, generateSlug(title) holds only
\* lowercase letters, digits and hyphens, neither begins nor ends with a hyphen
\* and has no two hyphens in a row.
C8_SlugWellFormed ==
    ret.called =>
        LET slug == ret.value
        IN  /\ \A k \in 1..Len(slug) : slug[k] \in SlugChars
            /\ slug # <<>> => slug[1] # "-" /\ slug[Len(slug)] # "-"
            /\ \A k \in 1..(Len(slug) - 1) : ~(slug[k] = "-" /\ slug[k + 1] = "-")

\* A title with a capital letter and an inner run of two separators.
C8_Witness ==
    /\ ret.called
    /\ arg = <<"B", " ", "-", "a">>
    /\ ret.value = <<"b", "-", "a">>

====
